---------------------------- MODULE Spec2Model ----------------------------
(***************************************************************************)
(* Model of the rating data-access layer and the movie query service:      *)
(*   backend/db/repositories/rating_repository.py  (retry decorator,       *)
(*       RatingRepository.find_by_movie_id / find_by_user_id /             *)
(*       get_rating_stats)                                                 *)
(*   backend/services/movie_service.py  (MovieService.get_movies_list,     *)
(*       MovieService.search_movies)                                       *)
(*                                                                         *)
(* Row keys and identifiers are sequences of byte values (the UTF-8        *)
(* encoding); the store orders keys byte-lexicographically.  Python's None *)
(* for an optional limit is the empty tuple, a given limit n is <<n>>.     *)
(* Ratings are counted in half units (3.5 is 7), so that sums of the       *)
(* 0.5-step ratings are exact, and an average is a reduced fraction.       *)
(***************************************************************************)
EXTENDS Integers, Sequences, FiniteSets, TLC

VARIABLES table, handle, stack, flight, events, outcome, request,
          movies, svc

vars == <<table, handle, stack, flight, events, outcome, request, movies, svc>>

-----------------------------------------------------------------------------
(* Bounds of the model *)

\* most rows a table holds
MaxRows == 2
\* largest limit a caller passes
MaxLimit == 2
\* most movies the movie store holds
MaxMovies == 3
\* largest page_size asked of get_movies_list
MaxPageSize == 3
\* longest search query
MaxQueryLen == 3

-----------------------------------------------------------------------------
(* Program constants *)

\* '_' : key_str.split('_')
Delim == 95
\* '~' : stop_row = f"{user_id}_~"
Sentinel == 126
\* @retry_on_connection_error(max_retries=2)
max_retries == 2
\* find_by_user_id(self, user_id, limit: int = 10)
DefaultUserLimit == 10

None == <<>>

-----------------------------------------------------------------------------
(* Bytes and strings *)

Min(x, y) == IF x <= y THEN x ELSE y

\* bytes.__lt__ : byte-lexicographic order, a proper prefix sorts first
RECURSIVE BytesLess(_, _)
BytesLess(s, t) ==
    IF t = <<>> THEN FALSE
    ELSE IF s = <<>> THEN TRUE
    ELSE IF s[1] < t[1] THEN TRUE
    ELSE IF s[1] > t[1] THEN FALSE
    ELSE BytesLess(Tail(s), Tail(t))

BytesLE(s, t) == s = t \/ BytesLess(s, t)

\* key.decode('utf-8') succeeds: over the bytes used here (ASCII and the
\* lone byte 0xFF, which is never valid UTF-8) a key decodes iff all of its
\* bytes are ASCII, and then its code points are its bytes
Decodable(bs) == \A i \in 1..Len(bs) : bs[i] < 128

\* str.split(sep) for a one-character separator: n separators give n+1 parts
RECURSIVE SplitFrom(_, _, _)
SplitFrom(s, sep, cur) ==
    IF s = <<>> THEN <<cur>>
    ELSE IF s[1] = sep THEN <<cur>> \o SplitFrom(Tail(s), sep, <<>>)
    ELSE SplitFrom(Tail(s), sep, Append(cur, s[1]))

split(s, sep) == SplitFrom(s, sep, <<>>)

-----------------------------------------------------------------------------
(* The store: a table is a function from row keys to column maps *)

ColRating == "data:rating"
ColTimestamp == "data:timestamp"

\* dict.get(col, default)
Get(data, col, default) == IF col \in DOMAIN data THEN data[col] ELSE default

RECURSIVE SortKeys(_)
SortKeys(S) ==
    IF S = {} THEN <<>>
    ELSE LET m == CHOOSE k \in S : \A j \in S : BytesLE(k, j)
         IN  <<m>> \o SortKeys(S \ {m})

\* table.scan(row_start, row_stop): the rows with row_start <= key < row_stop
\* (None: unbounded) in byte-lexicographic key order
scan(tbl, row_start, row_stop) ==
    LET inRange(k) == /\ (row_start = None \/ BytesLE(row_start[1], k))
                      /\ (row_stop = None \/ BytesLess(k, row_stop[1]))
        ks == SortKeys({k \in DOMAIN tbl : inRange(k)})
    IN  [i \in 1..Len(ks) |-> [key |-> ks[i], data |-> tbl[ks[i]]]]

-----------------------------------------------------------------------------
(* Results of a function body: a value or a raised exception *)

NoError == [msg |-> <<>>, id |-> 0]
Returned(v) == [kind |-> "value", value |-> v, error |-> NoError]
Raised(msg) == [kind |-> "exc", value |-> <<>>, error |-> [msg |-> msg, id |-> 0]]

UnicodeDecodeError == <<"'utf-8'", "codec", "can't", "decode", "byte">>
ValueError == <<"could", "not", "convert", "string", "to", "float">>

RatingDict(parts, data) ==
    [user_id |-> parts[1], movie_id |-> parts[2],
     rating |-> Get(data, ColRating, "0"),
     timestamp |-> Get(data, ColTimestamp, "")]

\* `if limit and len(ratings) >= limit`
LimitReachedMovie(limit, ratings) ==
    limit # None /\ limit[1] # 0 /\ Len(ratings) >= limit[1]

\* the loop of find_by_movie_id over the scanned rows, from row i on
RECURSIVE MovieLoop(_, _, _, _, _)
MovieLoop(rows, i, movie_id, limit, ratings) ==
    IF i > Len(rows) THEN Returned(ratings)
    ELSE IF ~Decodable(rows[i].key) THEN Raised(UnicodeDecodeError)
    ELSE LET parts == split(rows[i].key, Delim) IN
         IF Len(parts) = 2 /\ parts[2] = movie_id
         THEN LET r2 == Append(ratings, RatingDict(parts, rows[i].data)) IN
              IF LimitReachedMovie(limit, r2) THEN Returned(r2)
              ELSE MovieLoop(rows, i + 1, movie_id, limit, r2)
         ELSE MovieLoop(rows, i + 1, movie_id, limit, ratings)

\* RatingRepository.find_by_movie_id (the decorated function's body)
find_by_movie_id(tbl, movie_id, limit) ==
    MovieLoop(scan(tbl, None, None), 1, movie_id, limit, <<>>)

\* start_row = f"{user_id}_".encode('utf-8')
StartRow(user_id) == Append(user_id, Delim)

\* a stop row that leaves the delimiter out
StopRowNoDelim(user_id) == Append(user_id, Sentinel)

\* stop_row = f"{user_id}_~".encode('utf-8')
StopRow(user_id) == user_id \o <<Delim, Sentinel>>

\* `if len(ratings) >= limit`
LimitReachedUser(limit, ratings) == Len(ratings) >= limit

\* the loop of find_by_user_id over the scanned rows, from row i on
RECURSIVE UserLoop(_, _, _, _)
UserLoop(rows, i, limit, ratings) ==
    IF i > Len(rows) THEN Returned(ratings)
    ELSE IF ~Decodable(rows[i].key) THEN Raised(UnicodeDecodeError)
    ELSE LET parts == split(rows[i].key, Delim) IN
         IF Len(parts) = 2
         THEN LET r2 == Append(ratings, RatingDict(parts, rows[i].data)) IN
              IF LimitReachedUser(limit, r2) THEN Returned(r2)
              ELSE UserLoop(rows, i + 1, limit, r2)
         ELSE UserLoop(rows, i + 1, limit, ratings)

\* RatingRepository.find_by_user_id (the decorated function's body)
find_by_user_id(tbl, user_id, limit) ==
    UserLoop(scan(tbl, <<StartRow(user_id)>>, <<StopRow(user_id)>>), 1, limit, <<>>)

-----------------------------------------------------------------------------
(* get_rating_stats *)

\* float(r['rating']) in half units; -1 stands for ValueError
float(s) ==
    CASE s = "0"   -> 0
      [] s = "0.5" -> 1
      [] s = "1.0" -> 2
      [] s = "1.5" -> 3
      [] s = "2.0" -> 4
      [] s = "2.5" -> 5
      [] s = "3"   -> 6
      [] s = "3.0" -> 6
      [] s = "3.5" -> 7
      [] s = "4.0" -> 8
      [] s = "4.5" -> 9
      [] s = "5"   -> 10
      [] s = "5.0" -> 10
      [] OTHER     -> -1

RECURSIVE GCD(_, _)
GCD(x, y) == IF y = 0 THEN x ELSE GCD(y, x % y)

\* the quotient num/den as a fraction in lowest terms
Fraction(num, den) ==
    LET g == GCD(num, den) IN [num |-> num \div g, den |-> den \div g]

\* a bucket label without the special case for ratings below 1
rating_key_floor_only(rating_value) == ToString(rating_value \div 2)

\* rating_key = str(int(rating_value)) if rating_value >= 1 else "0.5"
rating_key(rating_value) ==
    IF rating_value >= 2 THEN ToString(rating_value \div 2) ELSE "0.5"

\* distribution[rating_key] += 1 on a defaultdict(int)
Increment(distribution, key) ==
    IF key \in DOMAIN distribution
    THEN [distribution EXCEPT ![key] = @ + 1]
    ELSE (key :> 1) @@ distribution

EmptyStats ==
    [avg_rating |-> [num |-> 0, den |-> 1], total_count |-> 0,
     rating_distribution |-> <<>>]

\* the loop of get_rating_stats over all_ratings, from element i on;
\* total is in half units
RECURSIVE StatsLoop(_, _, _, _)
StatsLoop(all_ratings, i, total, distribution) ==
    IF i > Len(all_ratings)
    THEN Returned([avg_rating |-> Fraction(total, 2 * Len(all_ratings)),
                   total_count |-> Len(all_ratings),
                   rating_distribution |-> distribution])
    ELSE LET rating_value == float(all_ratings[i].rating) IN
         IF rating_value < 0 THEN Raised(ValueError)
         ELSE StatsLoop(all_ratings, i + 1, total + rating_value,
                        Increment(distribution, rating_key(rating_value)))

\* the part of get_rating_stats that follows the call of find_by_movie_id
StatsOf(all_ratings) ==
    IF all_ratings = <<>> THEN Returned(EmptyStats)
    ELSE StatsLoop(all_ratings, 1, 0, <<>>)

\* RatingRepository.get_rating_stats when no scan fails on the connection
get_rating_stats(tbl, movie_id) ==
    LET found == find_by_movie_id(tbl, movie_id, None) IN
    IF found.kind = "exc" THEN found ELSE StatsOf(found.value)

-----------------------------------------------------------------------------
(* The inputs: row keys, column maps, tables, identifiers, limits *)

\* "a_a", "a_b", "b_a", "ab_a": well-formed keys
KeyA_A == <<97, 95, 97>>
KeyA_B == <<97, 95, 98>>
KeyB_A == <<98, 95, 97>>
KeyAB_A == <<97, 98, 95, 97>>
\* "ab": no delimiter; "a_a_a": two delimiters
KeyAB == <<97, 98>>
KeyA_A_A == <<97, 95, 97, 95, 97>>
\* "_a": empty user component; "a_": empty movie component
Key_A == <<95, 97>>
KeyA_ == <<97, 95>>
\* "a_~": movie component "~"
KeyA_Tilde == <<97, 95, 126>>
\* b"a_\xff": not valid UTF-8
KeyA_FF == <<97, 95, 255>>

WellFormedKeys == {KeyA_A, KeyA_B, KeyB_A, KeyAB_A}
AllKeys == WellFormedKeys \cup
           {KeyAB, KeyA_A_A, Key_A, KeyA_, KeyA_Tilde, KeyA_FF}

Cols(rating, timestamp) == (ColRating :> rating) @@ (ColTimestamp :> timestamp)
NoCols == <<>>

ShapeDatas == {Cols("5", "t2"), Cols("3.0", "t1"), NoCols}
RatingDatas == {Cols("0.5", "t1"), Cols("3.0", "t1"), Cols("3.5", "t1"),
                Cols("5", "t2"), NoCols, (ColRating :> "x")}

TablesOver(keys, datas, n) ==
    UNION {[K -> datas] : K \in {S \in SUBSET keys : Cardinality(S) <= n}}

\* tables that vary the shape of the keys, and tables that vary the ratings
ScanTables == TablesOver(AllKeys, ShapeDatas, MaxRows)
            \cup TablesOver(WellFormedKeys, RatingDatas, MaxRows)

\* "a", "b", "ab", "" and "~"
Ids == {<<97>>, <<98>>, <<97, 98>>, <<>>, <<126>>}

Limits == 0..MaxLimit

-----------------------------------------------------------------------------
(* State *)

NoOutcome == [kind |-> "none", value |-> <<>>, error |-> NoError]
Idle == [op |-> "idle", arg |-> <<>>, limit |-> None]
NoSvc == [op |-> "idle"]

\* the three repository operations, each applied once, as one step, to a
\* table on which no scan fails
CallFindByMovie ==
    \E movie_id \in Ids, limit \in {None} \cup {<<n>> : n \in Limits} :
        /\ request = Idle
        /\ request' = [op |-> "find_by_movie_id", arg |-> movie_id, limit |-> limit]
        /\ outcome' = find_by_movie_id(table, movie_id, limit)
        /\ UNCHANGED <<table, handle, stack, flight, events, movies, svc>>

CallFindByUser ==
    \E user_id \in Ids, limit \in Limits \cup {DefaultUserLimit} :
        /\ request = Idle
        /\ request' = [op |-> "find_by_user_id", arg |-> user_id, limit |-> <<limit>>]
        /\ outcome' = find_by_user_id(table, user_id, limit)
        /\ UNCHANGED <<table, handle, stack, flight, events, movies, svc>>

CallRatingStats ==
    \E movie_id \in Ids :
        /\ request = Idle
        /\ request' = [op |-> "get_rating_stats", arg |-> movie_id, limit |-> None]
        /\ outcome' = get_rating_stats(table, movie_id)
        /\ UNCHANGED <<table, handle, stack, flight, events, movies, svc>>

InitScan ==
    /\ table \in ScanTables
    /\ handle = 0
    /\ stack = <<>>
    /\ flight = NoOutcome
    /\ events = <<>>
    /\ outcome = NoOutcome
    /\ request = Idle
    /\ movies = <<>>
    /\ svc = NoSvc

NextScan == CallFindByMovie \/ CallFindByUser \/ CallRatingStats

SpecScan == InitScan /\ [][NextScan]_vars

-----------------------------------------------------------------------------
(* retry_on_connection_error and the decorated operations, step by step *)

\* error messages, as the sequences of fragments the classification looks for
MsgConnectionReset == <<"TSocket read 0 bytes: ", "Connection", " reset by peer">>
MsgBrokenPipe == <<"[Errno 32] ", "Broken pipe">>
MsgWinAbort == <<"[WinError ", "10053", "] software caused abort">>
MsgTimedOut == <<"timed out">>

\* the ways a scan fails
ScanFailures == {MsgConnectionReset, MsgBrokenPipe, MsgWinAbort, MsgTimedOut}

\* str.lower() on a fragment
lower(fragment) ==
    CASE fragment = "Connection" -> "connection"
      [] fragment = "Broken pipe" -> "broken pipe"
      [] OTHER -> fragment

\* a classification that takes every error for a connection error
is_connection_error_always(msg) == TRUE

\* 'connection' in error_msg or 'broken pipe' in error_msg or '10053' in error_msg
is_connection_error(msg) ==
    \E i \in 1..Len(msg) : lower(msg[i]) \in {"connection", "broken pipe", "10053"}

Top == stack[Len(stack)]

Event(ev, frame, h, err, value) ==
    [ev |-> ev, fid |-> frame.fid, op |-> frame.op, attempt |-> frame.attempt,
     handle |-> h, err |-> err, value |-> value]

CountEvents(ev) == Cardinality({i \in 1..Len(events) : events[i].ev = ev})

\* the identity of the next exception object raised within the call
FreshError(msg) == [msg |-> msg, id |-> CountEvents("raise") + 1]

\* hbase_connection.get_ratings_table(): a new table handle; handles are
\* numbered within the call, 0 being the handle the call found in place
get_ratings_table == CountEvents("refresh") + 1

\* a public operation is called on the idle repository: the wrapper starts
\* its first attempt
Request ==
    \E call \in {[op |-> "find_by_movie_id", arg |-> <<97>>, limit |-> None],
                 [op |-> "find_by_movie_id", arg |-> <<97>>, limit |-> <<1>>],
                 [op |-> "find_by_user_id", arg |-> <<97>>, limit |-> <<DefaultUserLimit>>],
                 [op |-> "get_rating_stats", arg |-> <<97>>, limit |-> None]} :
        /\ stack = <<>>
        /\ request' = call
        /\ stack' = <<[fid |-> 1, op |-> call.op, arg |-> call.arg, limit |-> call.limit,
                       attempt |-> 0, last_error |-> NoError, pc |-> "refresh"]>>
        /\ handle' = 0
        /\ events' = <<>>
        /\ flight' = NoOutcome
        /\ outcome' = NoOutcome
        /\ UNCHANGED <<table, movies, svc>>

\* a wrapper that refreshes the handle on its first attempt only
refresh_table_first_attempt_only ==
    /\ stack # <<>>
    /\ Top.pc = "refresh"
    /\ flight.kind = "none"
    /\ IF Top.attempt = 0
       THEN /\ handle' = get_ratings_table
            /\ events' = Append(events, Event("refresh", Top, get_ratings_table, NoError, <<>>))
       ELSE UNCHANGED <<handle, events>>
    /\ stack' = [stack EXCEPT ![Len(stack)].pc = "func"]
    /\ UNCHANGED <<table, flight, outcome, request, movies, svc>>

\* wrapper: `self._refresh_table()` at the start of every attempt;
\* _refresh_table: self.table = hbase_connection.get_ratings_table()
refresh_table ==
    /\ stack # <<>>
    /\ Top.pc = "refresh"
    /\ flight.kind = "none"
    /\ handle' = get_ratings_table
    /\ events' = Append(events, Event("refresh", Top, get_ratings_table, NoError, <<>>))
    /\ stack' = [stack EXCEPT ![Len(stack)].pc = "func"]
    /\ UNCHANGED <<table, flight, outcome, request, movies, svc>>

IsScanOp(op) == op \in {"find_by_movie_id", "find_by_user_id"}

ScanBody(frame) ==
    IF frame.op = "find_by_movie_id"
    THEN find_by_movie_id(table, frame.arg, frame.limit)
    ELSE find_by_user_id(table, frame.arg, frame.limit[1])

\* the body of find_by_movie_id / find_by_user_id runs on a live connection:
\* it returns its list, or raises what decoding a key raises
ScanCompletes ==
    /\ stack # <<>>
    /\ flight.kind = "none"
    /\ Top.pc = "func"
    /\ IsScanOp(Top.op)
    /\ LET r == ScanBody(Top) IN
       IF r.kind = "value"
       THEN /\ flight' = r
            /\ events' = events \o <<Event("func", Top, handle, NoError, <<>>),
                                     Event("return", Top, handle, NoError, r.value)>>
            /\ stack' = [stack EXCEPT ![Len(stack)].pc = "return"]
       ELSE /\ flight' = [r EXCEPT !.error = FreshError(r.error.msg)]
            /\ events' = events \o <<Event("func", Top, handle, NoError, <<>>),
                                     Event("raise", Top, handle, FreshError(r.error.msg), <<>>)>>
            /\ UNCHANGED stack
    /\ UNCHANGED <<table, handle, outcome, request, movies, svc>>

\* the scan fails: table.scan() raises, the body logs and re-raises
ScanRaises ==
    \E msg \in ScanFailures :
        /\ stack # <<>>
        /\ flight.kind = "none"
        /\ Top.pc = "func"
        /\ IsScanOp(Top.op)
        /\ flight' = [kind |-> "exc", value |-> <<>>, error |-> FreshError(msg)]
        /\ events' = events \o <<Event("func", Top, handle, NoError, <<>>),
                                 Event("raise", Top, handle, FreshError(msg), <<>>)>>
        /\ UNCHANGED <<table, handle, stack, outcome, request, movies, svc>>

\* get_rating_stats: all_ratings = self.find_by_movie_id(movie_id, limit=None),
\* a call of the decorated find_by_movie_id
StatsCallsFind ==
    /\ stack # <<>>
    /\ flight.kind = "none"
    /\ Top.pc = "func"
    /\ Top.op = "get_rating_stats"
    /\ events' = Append(events, Event("func", Top, handle, NoError, <<>>))
    /\ stack' = Append([stack EXCEPT ![Len(stack)].pc = "await"],
                       [fid |-> CountEvents("func") + 2, op |-> "find_by_movie_id",
                        arg |-> Top.arg, limit |-> None,
                        attempt |-> 0, last_error |-> NoError, pc |-> "refresh"])
    /\ UNCHANGED <<table, handle, flight, outcome, request, movies, svc>>

\* get_rating_stats: the reduction of all_ratings once find_by_movie_id has
\* returned them
StatsReduce ==
    /\ stack # <<>>
    /\ Top.pc = "await"
    /\ flight.kind = "value"
    /\ LET r == StatsOf(flight.value) IN
       IF r.kind = "value"
       THEN /\ flight' = r
            /\ events' = Append(events, Event("return", Top, handle, NoError, r.value))
            /\ stack' = [stack EXCEPT ![Len(stack)].pc = "return"]
       ELSE /\ flight' = [r EXCEPT !.error = FreshError(r.error.msg)]
            /\ events' = Append(events, Event("raise", Top, handle, FreshError(r.error.msg), <<>>))
            /\ UNCHANGED stack
    /\ UNCHANGED <<table, handle, outcome, request, movies, svc>>

\* wrapper: `return func(self, *args, **kwargs)`
WrapperReturn ==
    /\ stack # <<>>
    /\ Top.pc = "return"
    /\ flight.kind = "value"
    /\ stack' = SubSeq(stack, 1, Len(stack) - 1)
    /\ IF Len(stack) = 1
       THEN outcome' = flight /\ flight' = NoOutcome
       ELSE UNCHANGED <<outcome, flight>>
    /\ UNCHANGED <<table, handle, events, request, movies, svc>>

\* wrapper: `except Exception as e`: a connection error before the last
\* attempt goes round the loop again
WrapperRetry ==
    /\ stack # <<>>
    /\ flight.kind = "exc"
    /\ is_connection_error(flight.error.msg)
    /\ Top.attempt < max_retries - 1
    /\ events' = Append(events, Event("except", Top, handle, flight.error, <<>>))
    /\ stack' = [stack EXCEPT ![Len(stack)] =
                    [@ EXCEPT !.attempt = @ + 1, !.last_error = flight.error,
                              !.pc = "refresh"]]
    /\ flight' = NoOutcome
    /\ UNCHANGED <<table, handle, outcome, request, movies, svc>>

\* wrapper: `except Exception as e`: any other error, and a connection
\* error on the last attempt, is re-raised to the caller
WrapperRaise ==
    /\ stack # <<>>
    /\ flight.kind = "exc"
    /\ ~(is_connection_error(flight.error.msg) /\ Top.attempt < max_retries - 1)
    /\ events' = Append(events, Event("except", Top, handle, flight.error, <<>>))
    /\ stack' = SubSeq(stack, 1, Len(stack) - 1)
    /\ IF Len(stack) = 1
       THEN outcome' = flight /\ flight' = NoOutcome
       ELSE UNCHANGED <<outcome, flight>>
    /\ UNCHANGED <<table, handle, request, movies, svc>>

\* the tables the retried calls run on
RetryTables ==
    TablesOver({KeyA_A, KeyB_A, KeyA_FF}, {Cols("5", "t2"), (ColRating :> "x")}, MaxRows)

Init ==
    /\ table \in RetryTables
    /\ handle = 0
    /\ stack = <<>>
    /\ flight = NoOutcome
    /\ events = <<>>
    /\ outcome = NoOutcome
    /\ request = Idle
    /\ movies = <<>>
    /\ svc = NoSvc

Next ==
    \/ Request
    \/ refresh_table
    \/ ScanCompletes
    \/ ScanRaises
    \/ StatsCallsFind
    \/ StatsReduce
    \/ WrapperReturn
    \/ WrapperRetry
    \/ WrapperRaise

Spec == Init /\ [][Next]_vars

-----------------------------------------------------------------------------
(* MovieService.get_movies_list and MovieService.search_movies *)

\* int(m['rating_count']); -1 stands for ValueError
int(s) ==
    CASE s = "0" -> 0
      [] s = "1" -> 1
      [] s = "2" -> 2
      [] s = "3" -> 3
      [] OTHER   -> -1

\* a raw movie record of the movie repository
Raw(id, title, genres, avg_rating, rating_count) ==
    [id |-> id, title |-> title, genres |-> genres,
     avg_rating |-> avg_rating, rating_count |-> rating_count]

\* Movie(id=m['id'], ..., avg_rating=float(m['avg_rating']),
\*       rating_count=int(m['rating_count']))
Movie(m) ==
    [id |-> m.id, title |-> m.title, genres |-> m.genres,
     avg_rating |-> float(m.avg_rating), rating_count |-> int(m.rating_count)]

\* MovieRepository.find_all(): every stored record, in store order
find_all(store) == store

\* MovieRepository.find_by_id(id): the record of that id, or None
find_by_id(store, id) ==
    LET hits == SelectSeq(store, LAMBDA m : m.id = id)
    IN  IF hits = <<>> THEN None ELSE <<hits[1]>>

\* comparison of the sort keys, tuples of integers of one length
RECURSIVE TupleLess(_, _)
TupleLess(s, t) ==
    IF s = <<>> THEN FALSE
    ELSE IF s[1] < t[1] THEN TRUE
    ELSE IF s[1] > t[1] THEN FALSE
    ELSE TupleLess(Tail(s), Tail(t))

\* key=lambda x: (x.avg_rating, x.rating_count)
ListKey(movie) == <<movie.avg_rating, movie.rating_count>>

\* list.sort(key=ListKey, reverse=True): descending, and stable (equal keys
\* keep their order)
RECURSIVE InsertDescending(_, _)
InsertDescending(sorted, x) ==
    IF sorted = <<>> THEN <<x>>
    ELSE IF TupleLess(ListKey(sorted[1]), ListKey(x)) THEN <<x>> \o sorted
    ELSE <<sorted[1]>> \o InsertDescending(Tail(sorted), x)

RECURSIVE SortDescending(_, _)
SortDescending(seq, i) ==
    IF i = 0 THEN <<>>
    ELSE InsertDescending(SortDescending(seq, i - 1), seq[i])

\* a start index that is one page too far
start_idx_one_page_late(page, page_size) == page * page_size

\* start_idx = (page - 1) * page_size
start_idx(page, page_size) == (page - 1) * page_size

\* list[start:end] for 0 <= start <= end
Slice(seq, start, end) == SubSeq(seq, start + 1, Min(end, Len(seq)))

\* MovieService.get_movies_list
get_movies_list(store, page, page_size) ==
    LET all_movies_data == find_all(store)
        converted == [i \in 1..Len(all_movies_data) |-> Movie(all_movies_data[i])]
        all_movies == SortDescending(converted, Len(converted))
        total == Len(all_movies)
        total_pages == (total + page_size - 1) \div page_size
        start == start_idx(page, page_size)
    IN  [movies |-> Slice(all_movies, start, start + page_size),
         total |-> total, total_pages |-> total_pages]

\* the characters str.strip() removes: space, tab, line feed
Whitespace == {32, 9, 10}

\* a strip that removes nothing
strip_nothing(s) == s

\* str.strip()
RECURSIVE strip(_)
strip(s) ==
    IF s = <<>> THEN s
    ELSE IF s[1] \in Whitespace THEN strip(Tail(s))
    ELSE IF s[Len(s)] \in Whitespace THEN strip(SubSeq(s, 1, Len(s) - 1))
    ELSE s

\* str.isdigit() on ASCII text
isdigit(s) == s # <<>> /\ \A i \in 1..Len(s) : s[i] \in 48..57

\* str.lower() on ASCII text
lower_text(s) == [i \in 1..Len(s) |-> IF s[i] \in 65..90 THEN s[i] + 32 ELSE s[i]]

\* `needle in hay`
Contains(hay, needle) ==
    \E i \in 0..(Len(hay) - Len(needle)) : SubSeq(hay, i + 1, i + Len(needle)) = needle

\* MovieRepository.search_by_text(query, limit): the first `limit` records
\* whose title or one of whose genres contains the query, case-insensitive
search_by_text(store, query, limit) ==
    LET q == lower_text(query)
        hit(m) == \/ Contains(lower_text(m.title), q)
                  \/ \E g \in 1..Len(m.genres) : Contains(lower_text(m.genres[g]), q)
        hits == SelectSeq(store, hit)
    IN  SubSeq(hits, 1, Min(limit, Len(hits)))

\* sort_key: (not title_match, -movie.avg_rating, -movie.rating_count)
sort_key(query, movie) ==
    <<IF Contains(lower_text(movie.title), lower_text(query)) THEN 0 ELSE 1,
      0 - movie.avg_rating, 0 - movie.rating_count>>

\* matched_movies.sort(key=sort_key): ascending, and stable
RECURSIVE InsertByRelevance(_, _, _)
InsertByRelevance(query, sorted, x) ==
    IF sorted = <<>> THEN <<x>>
    ELSE IF TupleLess(sort_key(query, x), sort_key(query, sorted[1])) THEN <<x>> \o sorted
    ELSE <<sorted[1]>> \o InsertByRelevance(query, Tail(sorted), x)

RECURSIVE SortByRelevance(_, _, _)
SortByRelevance(query, seq, i) ==
    IF i = 0 THEN <<>>
    ELSE InsertByRelevance(query, SortByRelevance(query, seq, i - 1), seq[i])

\* MovieService.search_movies: the result, and the calls it made of
\* find_by_id and of search_by_text
search_movies(store, raw_query, limit) ==
    LET query == strip(raw_query) IN
    IF query = <<>>
    THEN [result |-> <<>>, id_lookups |-> <<>>, text_searches |-> <<>>]
    ELSE IF isdigit(query)
    THEN LET movie_data == find_by_id(store, query) IN
         [result |-> IF movie_data # None THEN <<Movie(movie_data[1])>> ELSE <<>>,
          id_lookups |-> <<query>>, text_searches |-> <<>>]
    ELSE LET matched_data == search_by_text(store, query, limit)
             matched_movies == [i \in 1..Len(matched_data) |-> Movie(matched_data[i])]
         IN  [result |-> SortByRelevance(query, matched_movies, Len(matched_movies)),
              id_lookups |-> <<>>, text_searches |-> <<<<query, limit>>>>]

\* stores of movies "1", "2", ... with every choice of average and count
ListRecords(i) ==
    {Raw(<<48 + i>>, <<77>>, <<>>, avg, cnt) : avg \in {"3.5", "4.0"}, cnt \in {"1", "2"}}

ListStores ==
    UNION {{s \in [1..n -> UNION {ListRecords(i) : i \in 1..n}] :
               \A i \in 1..n : s[i] \in ListRecords(i)} : n \in 0..MaxMovies}

\* movie "4" titled "M", and the better rated movie "44" titled "x" of genre "M"
MovieFour == Raw(<<52>>, <<77>>, <<>>, "3.5", "1")
MovieFortyFour == Raw(<<52, 52>>, <<120>>, <<<<77>>>>, "4.0", "2")

SearchStores ==
    {<<>>, <<MovieFour>>, <<MovieFortyFour>>, <<MovieFour, MovieFortyFour>>,
     <<MovieFortyFour, MovieFour>>}

\* queries of spaces, the digit "4" and the letter "m"
QueryChars == {32, 52, 109}
Queries == UNION {[1..n -> QueryChars] : n \in 0..MaxQueryLen}

\* one call of get_movies_list for page `page`; collected gathers the pages
\* handed out so far
ListCall(page, page_size, collected) ==
    LET r == get_movies_list(movies, page, page_size) IN
    [op |-> "get_movies_list", page |-> page, page_size |-> page_size,
     result |-> r, collected |-> collected \o r.movies]

\* the first page is asked for
GetFirstPage ==
    \E page_size \in 1..MaxPageSize :
        /\ svc.op = "idle"
        /\ svc' = ListCall(1, page_size, <<>>)
        /\ UNCHANGED <<table, handle, stack, flight, events, outcome, request, movies>>

\* the next page is asked for, up to the page after the last
GetNextPage ==
    /\ svc.op = "get_movies_list"
    /\ svc.page <= svc.result.total_pages
    /\ svc' = ListCall(svc.page + 1, svc.page_size, svc.collected)
    /\ UNCHANGED <<table, handle, stack, flight, events, outcome, request, movies>>

\* a search is made
Search ==
    \E query \in Queries, limit \in 1..MaxLimit :
        /\ svc.op = "idle"
        /\ svc' = [op |-> "search_movies", query |-> query, limit |-> limit,
                   call |-> search_movies(movies, query, limit)]
        /\ UNCHANGED <<table, handle, stack, flight, events, outcome, request, movies>>

InitService ==
    /\ movies \in ListStores \cup SearchStores
    /\ table = <<>>
    /\ handle = 0
    /\ stack = <<>>
    /\ flight = NoOutcome
    /\ events = <<>>
    /\ outcome = NoOutcome
    /\ request = Idle
    /\ svc = NoSvc

NextService == GetFirstPage \/ GetNextPage \/ Search

SpecService == InitService /\ [][NextService]_vars

-----------------------------------------------------------------------------
(* Claims about the retries, under Spec *)

\* the call has ended: its result or its error is with the caller
CallEnded == request.op # "idle" /\ stack = <<>>

\* the errors the retry policy names transient
ConnectionClass(msg) == msg \in {MsgConnectionReset, MsgBrokenPipe, MsgWinAbort}

EventIndices(ev) == {i \in 1..Len(events) : events[i].ev = ev}

\* the scan attempts of the call: the runs of a scanning function body
ScanAttempts == {i \in EventIndices("func") : IsScanOp(events[i].op)}

\* the scan attempt at index i failed with a connection-class error
ScanFailedOnConnection(i) ==
    /\ i < Len(events)
    /\ events[i + 1].ev = "raise"
    /\ ConnectionClass(events[i + 1].err.msg)

\* C1: within one call of a public operation the table scan is attempted at
\* most max_retries = 2 times, and a call whose every scan attempt fails
\* with a connection-class error ends with that error after exactly 2 scan
\* attempts.
C1_Original_AtMostTwoScanAttempts ==
    /\ Cardinality(ScanAttempts) <= max_retries
    /\ (CallEnded /\ ScanAttempts # {}
           /\ \A i \in ScanAttempts : ScanFailedOnConnection(i)) =>
          /\ outcome.kind = "exc"
          /\ ConnectionClass(outcome.error.msg)
          /\ Cardinality(ScanAttempts) = max_retries

\* what holds instead: the bound is max_retries for the two scanning
\* operations and max_retries * max_retries for get_rating_stats
ScanAttemptsBoundedPerOperation ==
    /\ IsScanOp(request.op) => Cardinality(ScanAttempts) <= max_retries
    /\ request.op = "get_rating_stats" =>
          Cardinality(ScanAttempts) <= max_retries * max_retries

\* C2: when the first attempt of a wrapped operation fails with a
\* connection-class error and the second attempt succeeds, the handle is
\* reacquired exactly once between the two attempts, the second attempt
\* runs on the reacquired handle, and the call returns the second attempt's
\* result.
C2_RetryReacquiresOnceAndReturnsSecondResult ==
    \A i \in EventIndices("except"), j \in EventIndices("return") :
        (/\ i < j
         /\ events[i].attempt = 0
         /\ ConnectionClass(events[i].err.msg)
         /\ events[j].fid = events[i].fid
         /\ events[j].attempt = 1) =>
            LET m == CHOOSE k \in EventIndices("func") :
                        events[k].fid = events[i].fid /\ events[k].attempt = 1
                between == {k \in EventIndices("refresh") : i < k /\ k < m}
            IN  /\ Cardinality(between) = 1
                /\ \A k \in between : events[m].handle = events[k].handle
                /\ (events[i].fid = 1 /\ CallEnded) => outcome = Returned(events[j].value)

\* C2 witness: a call has returned a result after its first attempt failed
\* with a connection-class error
C2_Witness ==
    /\ CallEnded
    /\ outcome.kind = "value"
    /\ \E i \in EventIndices("except") :
          /\ events[i].fid = 1
          /\ events[i].attempt = 0
          /\ ConnectionClass(events[i].err.msg)

\* C3: a non-connection error is never retried: after it is raised no
\* further attempt is made and no handle is reacquired, on whichever
\* attempt it occurs (on the first attempt, exactly one attempt has been
\* made), and the caller receives that very error.
C3_FatalErrorIsNeverRetried ==
    \A i \in EventIndices("raise") :
        ~ConnectionClass(events[i].err.msg) =>
            /\ \A j \in (i + 1)..Len(events) : events[j].ev \notin {"func", "refresh"}
            /\ Cardinality({j \in EventIndices("func") : events[j].fid = events[i].fid})
                  = events[i].attempt + 1
            /\ CallEnded => (outcome.kind = "exc" /\ outcome.error = events[i].err)

\* C3 witness: a call has ended with a non-connection error raised on the
\* attempt that followed a retried connection error
C3_Witness ==
    /\ CallEnded
    /\ outcome.kind = "exc"
    /\ ~ConnectionClass(outcome.error.msg)
    /\ \E i \in EventIndices("raise") :
          /\ events[i].err = outcome.error
          /\ events[i].attempt = 1
          /\ events[i].fid = 1

-----------------------------------------------------------------------------
(* Claims about the scans, under SpecScan *)

IsMovieCall == request.op = "find_by_movie_id" /\ outcome.kind = "value"
IsUserCall == request.op = "find_by_user_id" /\ outcome.kind = "value"
IsStatsCall == request.op = "get_rating_stats" /\ outcome.kind = "value"

\* what a row contributes to a result: the two key components, and the
\* two columns with "0" and "" for a missing one
ExpectedRating(row) ==
    LET parts == split(row.key, Delim) IN
    [user_id |-> parts[1], movie_id |-> parts[2],
     rating |-> IF ColRating \in DOMAIN row.data THEN row.data[ColRating] ELSE "0",
     timestamp |-> IF ColTimestamp \in DOMAIN row.data
                   THEN row.data[ColTimestamp] ELSE ""]

\* the rows of tbl for movie_id, in scan order
MovieMatches(tbl, movie_id) ==
    LET hit(row) == LET parts == split(row.key, Delim)
                    IN  Len(parts) = 2 /\ parts[2] = movie_id
        hits == SelectSeq(scan(tbl, None, None), hit)
    IN  [i \in 1..Len(hits) |-> ExpectedRating(hits[i])]

FirstN(seq, n) == SubSeq(seq, 1, Min(n, Len(seq)))

\* C4: find_by_movie_id returns the rows whose second key component is
\* movie_id, in scan order: all of them when limit is absent, and the first
\* `limit` of them for every given limit, 0 included; a missing rating
\* column reads "0" and a missing timestamp column reads "".
C4_Original_MovieResultIsFirstLimitMatches ==
    IsMovieCall =>
        outcome.value =
            IF request.limit = None THEN MovieMatches(table, request.arg)
            ELSE FirstN(MovieMatches(table, request.arg), request.limit[1])

\* the same statement for the limits the code honours (absent, or >= 1)
MovieResultIsFirstLimitMatchesForPositiveLimit ==
    (IsMovieCall /\ request.limit # <<0>>) =>
        outcome.value =
            IF request.limit = None THEN MovieMatches(table, request.arg)
            ELSE FirstN(MovieMatches(table, request.arg), request.limit[1])

\* C5: find_by_user_id never returns a row whose first key component
\* differs from the queried user_id.
C5_UserResultHasOnlyQueriedUser ==
    IsUserCall =>
        \A i \in 1..Len(outcome.value) : outcome.value[i].user_id = request.arg

\* C5 witness: user "a" is queried on a table that also holds a row of user
\* "ab", and a row of "a" is returned
C5_Witness ==
    /\ IsUserCall
    /\ request.arg = <<97>>
    /\ KeyAB_A \in DOMAIN table
    /\ Len(outcome.value) >= 1

\* the value of a well-formed rating string, in half units
RatingHalves ==
    ("0.5" :> 1) @@ ("1.0" :> 2) @@ ("1.5" :> 3) @@ ("2.0" :> 4) @@ ("2.5" :> 5)
    @@ ("3.0" :> 6) @@ ("3.5" :> 7) @@ ("4.0" :> 8) @@ ("4.5" :> 9)
    @@ ("5.0" :> 10) @@ ("5" :> 10) @@ ("3" :> 6)

\* the label a rating counts under: "0.5" below 1.0, else its integer part
BucketLabel ==
    ("0.5" :> "0.5") @@ ("1.0" :> "1") @@ ("1.5" :> "1") @@ ("2.0" :> "2")
    @@ ("2.5" :> "2") @@ ("3.0" :> "3") @@ ("3.5" :> "3") @@ ("4.0" :> "4")
    @@ ("4.5" :> "4") @@ ("5.0" :> "5") @@ ("5" :> "5") @@ ("3" :> "3")

\* the keys of the rows of movie_id
MovieKeys(tbl, movie_id) ==
    {k \in DOMAIN tbl : LET parts == split(k, Delim)
                        IN  Len(parts) = 2 /\ parts[2] = movie_id}

RECURSIVE SumHalves(_, _)
SumHalves(tbl, K) ==
    IF K = {} THEN 0
    ELSE LET k == CHOOSE x \in K : TRUE
         IN  RatingHalves[tbl[k][ColRating]] + SumHalves(tbl, K \ {k})

\* every row of the movie carries a rating in 0.5 steps from 0.5 to 5.0
RatingsInRange(tbl, K) ==
    \A k \in K : ColRating \in DOMAIN tbl[k] /\ tbl[k][ColRating] \in DOMAIN RatingHalves

Malformed(key) ==
    LET parts == split(key, Delim)
    IN  Len(parts) # 2 \/ parts[1] = <<>> \/ parts[2] = <<>>

WithoutMalformed(tbl) == [k \in {x \in DOMAIN tbl : ~Malformed(x)} |-> tbl[k]]

\* C9: rows whose key does not split into exactly two non-empty parts are
\* skipped: the outcome of find_by_movie_id and of find_by_user_id (the
\* rows returned, the effect of the limit, success or failure) is the one
\* the table without those rows gives.
C9_Original_MalformedRowsAreSkipped ==
    /\ request.op = "find_by_movie_id" =>
          outcome = find_by_movie_id(WithoutMalformed(table), request.arg, request.limit)
    /\ request.op = "find_by_user_id" =>
          outcome = find_by_user_id(WithoutMalformed(table), request.arg, request.limit[1])

\* the same statement for the keys the code does skip: those that split
\* into fewer or more than two parts
WithoutMiscounted(tbl) ==
    [k \in {x \in DOMAIN tbl : Len(split(x, Delim)) = 2} |-> tbl[k]]

MiscountedRowsAreSkipped ==
    /\ request.op = "find_by_movie_id" =>
          outcome = find_by_movie_id(WithoutMiscounted(table), request.arg, request.limit)
    /\ request.op = "find_by_user_id" =>
          outcome = find_by_user_id(WithoutMiscounted(table), request.arg, request.limit[1])

\* the decodable, well-formed keys of tbl whose first component is user_id
UserKeys(tbl, user_id) ==
    {k \in DOMAIN tbl :
        Decodable(k) /\ ~Malformed(k) /\ split(k, Delim)[1] = user_id}

\* C10: when limit is at least the number of well-formed rows of user_id,
\* find_by_user_id returns every one of them.
C10_Original_UserResultIsComplete ==
    (IsUserCall /\ request.limit[1] >= Cardinality(UserKeys(table, request.arg))) =>
        \A k \in UserKeys(table, request.arg) :
            \E i \in 1..Len(outcome.value) :
                /\ outcome.value[i].user_id = request.arg
                /\ outcome.value[i].movie_id = split(k, Delim)[2]

\* the nearby statement that holds: with limit at least the number of rows
\* of user_id that split into two parts, every decodable one whose movie
\* component sorts below "~" is returned
UserResultIsCompleteBelowSentinel ==
    LET U == {k \in DOMAIN table :
                 LET parts == split(k, Delim)
                 IN  Len(parts) = 2 /\ parts[1] = request.arg}
        K == {k \in U : Decodable(k) /\ BytesLess(split(k, Delim)[2], <<Sentinel>>)}
    IN  (IsUserCall /\ request.limit[1] >= Cardinality(U)) =>
            \A k \in K : \E i \in 1..Len(outcome.value) :
                /\ outcome.value[i].user_id = request.arg
                /\ outcome.value[i].movie_id = split(k, Delim)[2]

-----------------------------------------------------------------------------
(* Claims about the service, under SpecService *)

\* seq is in descending order of (avg_rating, rating_count)
IsDescending(seq) ==
    \A i \in 1..(Len(seq) - 1) :
        \/ seq[i].avg_rating > seq[i + 1].avg_rating
        \/ /\ seq[i].avg_rating = seq[i + 1].avg_rating
           /\ seq[i].rating_count >= seq[i + 1].rating_count

\* seq holds every movie of the store once: the stored ids are distinct
HoldsEveryMovieOnce(seq) ==
    /\ Len(seq) = Len(movies)
    /\ \A i \in 1..Len(movies) :
          Cardinality({j \in 1..Len(seq) : seq[j] = Movie(movies[i])}) = 1

\* C7: get_movies_list returns at most page_size items, total_pages is
\* ceil(total / page_size), and the pages 1..total_pages in order are the
\* whole movie set in descending order of (avg_rating, rating_count), no
\* movie twice and none left out.
C7_PagesPartitionTheSortedSet ==
    svc.op = "get_movies_list" =>
        LET r == svc.result IN
        /\ Len(r.movies) <= svc.page_size
        /\ r.total = Len(movies)
        /\ r.total_pages * svc.page_size >= r.total
        /\ (r.total_pages - 1) * svc.page_size < r.total
        /\ svc.page = r.total_pages =>
              IsDescending(svc.collected) /\ HoldsEveryMovieOnce(svc.collected)

\* C7 witness: three movies have been handed out on two pages
C7_Witness ==
    /\ svc.op = "get_movies_list"
    /\ svc.page = 2
    /\ svc.result.total_pages = 2
    /\ Len(svc.collected) = 3
    /\ svc.collected[1].avg_rating > svc.collected[3].avg_rating

\* the positions of the query that hold no whitespace
Inked(query) == {i \in 1..Len(query) : query[i] \notin Whitespace}

\* the query without its leading and trailing whitespace, when it holds
\* anything else
Core(query) ==
    LET first == CHOOSE i \in Inked(query) : \A j \in Inked(query) : i <= j
        last == CHOOSE i \in Inked(query) : \A j \in Inked(query) : i >= j
    IN  SubSeq(query, first, last)

\* C8: a query that, trimmed, is all digits makes exactly one lookup by id
\* and no text search, and returns the one movie of that id when it exists
\* and nothing when it does not; an empty or whitespace-only query returns
\* nothing and does not touch the store.
C8_DigitQueryIsAnIdLookup ==
    svc.op = "search_movies" =>
        LET c == svc.call IN
        IF Inked(svc.query) = {}
        THEN c.result = <<>> /\ c.id_lookups = <<>> /\ c.text_searches = <<>>
        ELSE (\A i \in 1..Len(Core(svc.query)) : Core(svc.query)[i] \in 48..57) =>
               /\ c.id_lookups = <<Core(svc.query)>>
               /\ c.text_searches = <<>>
               /\ IF \E i \in 1..Len(movies) : movies[i].id = Core(svc.query)
                  THEN Len(c.result) = 1 /\ c.result[1].id = Core(svc.query)
                  ELSE c.result = <<>>

\* C8 witness: the query " 4" has found the movie "4", the store holding
\* the movie "44" as well
C8_Witness ==
    /\ svc.op = "search_movies"
    /\ svc.query = <<32, 52>>
    /\ Len(movies) = 2
    /\ Len(svc.call.result) = 1
    /\ svc.call.result[1].id = <<52>>

=============================================================================
